---------------------------- MODULE Spec2Model ----------------------------
(***************************************************************************)
(* The DEX order indexer of chips-indexer: kadena_indexer/dex.             *)
(*                                                                         *)
(* Three source collections (PLACE_ORDER, MATCH_ORDER, CANCEL_ORDER hold   *)
(* the chain's events), a materialised store (orders, trades and the       *)
(* last_order_height document) and one DexOrderProcessor run at a time.    *)
(*                                                                         *)
(* Quantities are counted in units of 0.0005, so that the 0.001 tolerance  *)
(* of process_match_order_event is 2 units and an amount below it exists.  *)
(* A quotient of two quantities is an exact fraction.                      *)
(* A numeric parameter keeps the type it arrives with (Decimal128,         *)
(* Decimal, int, str) as a record [t, v]; safe_decimal_to_float takes the  *)
(* value out of it.  Python's positional params list is a tuple, indexed   *)
(* from 1 here and from 0 there.                                           *)
(***************************************************************************)
EXTENDS Integers, Sequences, FiniteSets, TLC

VARIABLES
    source,            \* the event collections: kind -> documents in insertion order
    orders,            \* orders collection: orderId -> order document
    trades,            \* trades collection, in insertion order
    watermark,         \* value of the last_order_height document (0: absent)
    pc,                \* where the current run stands
    todo,              \* sorted(events_by_height.keys()) not yet finished; Head is `height`
    events_by_height,  \* fetch_and_organize_events' result
    events,            \* events_by_height[height], sorted by event_priority
    ei,                \* index in `events` of the next event to evaluate
    order_updates,     \* EventProcessor.order_updates
    trade_inserts,     \* EventProcessor.trade_inserts
    ui,                \* index in order_updates of the next update to apply
    faults,            \* store calls that failed so far
    evaluated,         \* the events that the loop of some run has taken up
    lock_file,         \* run_scripts.py: the file at LOCK_FILE
    dex_lock_file,     \* main_processor.py: a file exists at Config.LOCK_FILE_PATH
    proc,              \* where each operating-system process stands
    old_pid,           \* acquire_lock: the PID each process read from LOCK_FILE
    entry              \* what each process was started to call

vars == <<source, orders, trades, watermark, pc, todo, events_by_height, events,
          ei, order_updates, trade_inserts, ui, faults, evaluated,
          lock_file, dex_lock_file, proc, old_pid, entry>>

\* the lock files and the processes that contend for them
lockvars == <<lock_file, dex_lock_file, proc, old_pid, entry>>

\* the state of one DexOrderProcessor and of its store
runvars == <<source, orders, trades, watermark, pc, todo, events_by_height, events,
             ei, order_updates, trade_inserts, ui, faults, evaluated>>

store == <<orders, trades, watermark>>

-----------------------------------------------------------------------------
(* Bounds *)

MaxHeight == 2

MaxEvents == 3

MaxFaults == 1

-----------------------------------------------------------------------------
(* Constants of the program *)

\* event_processor.py:117, `new_remaining_amount <= 0.001`, in units of 0.0005
Tolerance == 2

\* Python's None in a numeric field
NoneNum == -1

\* Python's None in a string field
NoneStr == "None"

-----------------------------------------------------------------------------
(* Python's float division.  A quotient is kept as the fraction in lowest
   terms, so that it is the number the division gives, short of rounding. *)

RECURSIVE GCD(_, _)
GCD(a, b) == IF b = 0 THEN a ELSE GCD(b, a % b)

\* a / b, for a >= 0 and b > 0
Quotient(a, b) == [num |-> a \div GCD(a, b), den |-> b \div GCD(a, b)]

-----------------------------------------------------------------------------
(* utils.py *)

SafeDecimalToFloat(value) ==
    CASE value.t = "Decimal128" -> value.v
      [] value.t = "Decimal"    -> value.v
      [] value.t = "int"        -> value.v
      [] value.t = "str"        -> value.v

\* pair.replace('/', '-') on a string given as its characters
NormalizePair(pair) == [i \in 1..Len(pair) |-> IF pair[i] = "/" THEN "-" ELSE pair[i]]

\* order_time is {'timep': ...} or a string
ExtractTimestamp(order_time) ==
    IF "timep" \in DOMAIN order_time THEN order_time.timep ELSE order_time.str

ValidatePlaceOrderParams(params) ==
    /\ Len(params) >= 8
    /\ params[1] # ""
    /\ params[2] # ""
    /\ SafeDecimalToFloat(params[3]) > 0
    /\ SafeDecimalToFloat(params[4]) > 0
    /\ params[7] # <<>>
    /\ SafeDecimalToFloat(params[8]) > 0

ValidateMatchOrderParams(params) ==
    /\ Len(params) >= 10
    /\ params[1] # ""
    /\ params[2] # ""
    /\ params[3] # ""
    /\ SafeDecimalToFloat(params[4]) > 0
    /\ SafeDecimalToFloat(params[5]) > 0
    /\ params[8] # <<>>
    /\ SafeDecimalToFloat(params[9]) > 0
    /\ SafeDecimalToFloat(params[10]) >= 0

\* a CANCEL validation that does not test the amount
ValidateCancelAllowsNegative(params) ==
    /\ Len(params) >= 4
    /\ params[1] # ""
    /\ params[2] # ""
    /\ params[3] # ""

ValidateCancelOrderParams(params) ==
    /\ Len(params) >= 4
    /\ params[1] # ""
    /\ params[2] # ""
    /\ params[3] # ""
    /\ SafeDecimalToFloat(params[4]) >= 0

-----------------------------------------------------------------------------
(* The events the chain may have emitted *)

OrderIds == {"o1"}

Heights == 1..MaxHeight

DecV(n) == [t |-> "Decimal128", v |-> n]

IntV(n) == [t |-> "int", v |-> n]

StrV(n) == [t |-> "str", v |-> n]

PairXY == <<"X", "/", "Y">>

\* the block time of the block at a height
BlockTimeOf(h) == 100 + h

OrderTimeOf(h) == [timep |-> 100 + h]

\* the malformed events of the chain are in its first block
Malformed(h, params) == IF h = 1 THEN params ELSE {}

\* [account, id, amount, price, is_ask, order_time, pair, dollar_value]; the
\* malformed ones have amount 0 or no dollar_value
PlaceParamsSet(h) ==
    {<<"a", id, DecV(4), DecV(2), TRUE, OrderTimeOf(h), PairXY, DecV(8)>> : id \in OrderIds}
    \cup {<<"b", id, IntV(2), StrV(1), FALSE, OrderTimeOf(h), PairXY, IntV(2)>> : id \in OrderIds}
    \cup Malformed(h, {<<"a", id, DecV(0), DecV(2), TRUE, OrderTimeOf(h), PairXY, DecV(8)>> :
                           id \in OrderIds})
    \cup Malformed(h, {<<"a", id, DecV(4), DecV(2), TRUE, OrderTimeOf(h), PairXY>> :
                           id \in OrderIds})

\* [maker, taker, id, amount, price, is_ask, order_time, pair, dollar_value, fee];
\* the last one lacks the fee
MatchParamsSet(h) ==
    {<<"m", "t", id, DecV(3), DecV(2), TRUE, OrderTimeOf(h), PairXY, DecV(6), DecV(1)>> : id \in OrderIds}
    \cup {<<"m", "t", id, IntV(1), StrV(1), TRUE, OrderTimeOf(h), PairXY, IntV(1), IntV(0)>> : id \in OrderIds}
    \cup Malformed(h, {<<"m", "t", id, DecV(3), DecV(2), TRUE, OrderTimeOf(h), PairXY, DecV(6)>> :
                           id \in OrderIds})

\* [account, id, token_returned, amount]; the malformed ones name no token,
\* return a negative amount or have no amount
CancelParamsSet(h) ==
    {<<"a", id, "KDA", DecV(1)>> : id \in OrderIds}
    \cup Malformed(h, {<<"a", id, "", DecV(1)>> : id \in OrderIds})
    \cup Malformed(h, {<<"a", id, "KDA", DecV(-1)>> : id \in OrderIds})
    \cup Malformed(h, {<<"a", id, "KDA">> : id \in OrderIds})

ParamsSet(kind, h) ==
    CASE kind = "PLACE_ORDER"  -> PlaceParamsSet(h)
      [] kind = "MATCH_ORDER"  -> MatchParamsSet(h)
      [] kind = "CANCEL_ORDER" -> CancelParamsSet(h)

\* the documents a source collection may hold
Documents(kind) ==
    UNION {{[height |-> h, blockTime |-> BlockTimeOf(h), params |-> p] :
              p \in ParamsSet(kind, h)} : h \in Heights}

\* the chain appends its events in block order: the sequences over S of length
\* n that are ascending in height
SeqsOfLen(S, n) ==
    {s \in [1..n -> S] : \A i \in 1..n, j \in 1..n : i < j => s[i].height <= s[j].height}

\* the document at position i of a collection gets _id i
WithIds(docs) == [i \in 1..Len(docs) |-> [_id |-> i] @@ docs[i]]

-----------------------------------------------------------------------------
(* database.py *)

\* list.sort / cursor.sort: a stable sort of s by the keys given beside it
RECURSIVE SortKeyed(_)
SortKeyed(s) ==
    IF s = <<>> THEN <<>>
    ELSE LET e == Head(s)
             r == SortKeyed(Tail(s))
         IN  SelectSeq(r, LAMBDA x : x.k < e.k) \o <<e>> \o SelectSeq(r, LAMBDA x : x.k >= e.k)

StableSort(s, keys) ==
    LET sorted == SortKeyed([i \in 1..Len(s) |-> [k |-> keys[i], v |-> s[i]]])
    IN  [i \in 1..Len(sorted) |-> sorted[i].v]

\* a find without the height filter
FindFromStart(docs, last_order_height) ==
    StableSort(docs, [i \in 1..Len(docs) |-> docs[i].height])

\* find({"height": {"$gt": last}}).sort("height", 1) on the documents of a
\* collection
Find(docs, last_order_height) ==
    LET found == SelectSeq(docs, LAMBDA d : d.height > last_order_height)
    IN  StableSort(found, [i \in 1..Len(found) |-> found[i].height])

\* collection.find({"height": {"$gt": last}}).sort("height", 1)
FindEvents(kind, last_order_height) == Find(source[kind], last_order_height)

\* fetch_events: the three finds in turn; an exception in find number failAt
\* (0: in none) is logged and leaves that collection's list, and those after
\* it, empty
FetchEvents(last_order_height, failAt) ==
    LET reached(k) == failAt = 0 \/ failAt > k
    IN  [place_orders  |-> IF reached(1) THEN FindEvents("PLACE_ORDER", last_order_height)
                           ELSE <<>>,
         match_orders  |-> IF reached(2) THEN FindEvents("MATCH_ORDER", last_order_height)
                           ELSE <<>>,
         cancel_orders |-> IF reached(3) THEN FindEvents("CANCEL_ORDER", last_order_height)
                           ELSE <<>>]

\* get_last_processed_height: the stored value, 0 when the read raises
GetLastProcessedHeight(readFails) == IF readFails THEN 0 ELSE watermark

-----------------------------------------------------------------------------
(* main_processor.py: fetch_and_organize_events *)

Tagged(docs, event_type) == [i \in 1..Len(docs) |-> [event_type |-> event_type] @@ docs[i]]

FetchAndOrganizeEvents(fetched) ==
    LET all == Tagged(fetched.place_orders, "PLACE_ORDER")
                 \o Tagged(fetched.match_orders, "MATCH_ORDER")
                 \o Tagged(fetched.cancel_orders, "CANCEL_ORDER")
        hs  == {all[i].height : i \in 1..Len(all)}
    IN  [h \in hs |-> SelectSeq(all, LAMBDA e : e.height = h)]

\* event_priority.get(event_type, 999)
EventPriorityMatchFirst(event_type) ==
    CASE event_type = "PLACE_ORDER"  -> 1
      [] event_type = "MATCH_ORDER"  -> 0
      [] event_type = "CANCEL_ORDER" -> 2
      [] OTHER -> 999

EventPriority(event_type) ==
    CASE event_type = "PLACE_ORDER"  -> 0
      [] event_type = "MATCH_ORDER"  -> 1
      [] event_type = "CANCEL_ORDER" -> 2
      [] OTHER -> 999

\* events.sort(key=...)
SortEvents(evs) == StableSort(evs, [i \in 1..Len(evs) |-> EventPriority(evs[i].event_type)])

\* the heights from the greatest down
RECURSIVE SortedHeightsDescending(_)
SortedHeightsDescending(hs) ==
    IF hs = {} THEN <<>>
    ELSE LET m == CHOOSE x \in hs : \A y \in hs : x >= y
         IN  <<m>> \o SortedHeightsDescending(hs \ {m})

\* sorted(events_by_height.keys())
RECURSIVE SortedHeights(_)
SortedHeights(hs) ==
    IF hs = {} THEN <<>>
    ELSE LET m == CHOOSE x \in hs : \A y \in hs : x <= y
         IN  <<m>> \o SortedHeights(hs \ {m})

-----------------------------------------------------------------------------
(* event_processor.py *)

\* orders_collection.find_one({"orderId": order_id}) found a document
Exists(ords, order_id) == order_id \in DOMAIN ords

\* the update operator of the PLACE upsert
PlaceOpSet == "$set"

PlaceOp == "$setOnInsert"

\* process_place_order_event: the queued upsert
PlaceOrderUpdate(event_params, height, block_time) ==
    LET account      == event_params[1]
        order_id     == event_params[2]
        amount       == SafeDecimalToFloat(event_params[3])
        price        == SafeDecimalToFloat(event_params[4])
        pair         == NormalizePair(event_params[7])
        dollar_value == SafeDecimalToFloat(event_params[8])
        order_data   ==
            [orderId          |-> order_id,
             account          |-> account,
             pair             |-> pair,
             originalAmount   |-> amount,
             amount           |-> amount,
             filledAmount     |-> 0,
             price            |-> price,
             height           |-> height,
             status           |-> "active",
             fillPercentage   |-> Quotient(0, 1),
             averageFillPrice |-> Quotient(0, 1),
             totalFillValue   |-> 0,
             totalDollarValue |-> dollar_value,
             totalFees        |-> 0,
             numberOfFills    |-> 0,
             lastFillTime     |-> NoneNum,
             lastFillHeight   |-> NoneNum,
             lastUpdated      |-> height,
             cancelledAt      |-> NoneNum,
             cancelReason     |-> NoneStr,
             tokenReturned    |-> NoneStr,
             amountReturned   |-> NoneNum]
    IN  [filter |-> [orderId |-> order_id],
         op     |-> PlaceOp,
         doc    |-> order_data,
         upsert |-> TRUE]

\* the remaining amount process_match_order_event stores: 0 within the tolerance
RemainingUnclamped(new_remaining_amount) == new_remaining_amount

RemainingAmount(new_remaining_amount) ==
    IF new_remaining_amount <= Tolerance THEN 0 ELSE new_remaining_amount

\* the status process_match_order_event decides on
MatchStatusExactZero(new_remaining_amount, new_filled_amount, existing_order) ==
    IF new_remaining_amount <= 0 THEN "filled"
    ELSE IF new_filled_amount > 0 THEN "partially_filled"
    ELSE existing_order.status

MatchStatus(new_remaining_amount, new_filled_amount, existing_order) ==
    IF new_remaining_amount <= Tolerance THEN "filled"
    ELSE IF new_filled_amount > 0 THEN "partially_filled"
    ELSE existing_order.status

\* new_average_fill_price
AverageFillPriceFloored(new_total_value, new_filled_amount) ==
    IF new_filled_amount > 0
    THEN [num |-> new_total_value \div new_filled_amount, den |-> 1]
    ELSE Quotient(0, 1)

AverageFillPrice(new_total_value, new_filled_amount) ==
    IF new_filled_amount > 0 THEN Quotient(new_total_value, new_filled_amount)
    ELSE Quotient(0, 1)

\* fill_percentage
FillPercentage(new_filled_amount, original_amount) ==
    IF original_amount > 0 THEN Quotient(new_filled_amount * 100, original_amount)
    ELSE Quotient(0, 1)

\* process_match_order_event: the queued $set, computed from the order as read
MatchOrderUpdate(existing_order, event_params, height) ==
    LET order_id       == event_params[3]
        matched_amount == SafeDecimalToFloat(event_params[4])
        matched_price  == SafeDecimalToFloat(event_params[5])
        dollar_value   == SafeDecimalToFloat(event_params[9])
        fee            == SafeDecimalToFloat(event_params[10])
        timestamp      == ExtractTimestamp(event_params[7])
        new_filled_amount    == existing_order.filledAmount + matched_amount
        new_remaining_amount == existing_order.originalAmount - new_filled_amount
        new_total_value      == existing_order.totalFillValue + (matched_amount * matched_price)
        original_amount      == existing_order.originalAmount
        new_status == MatchStatus(new_remaining_amount, new_filled_amount, existing_order)
    IN  [filter |-> [orderId |-> order_id],
         op     |-> "$set",
         doc    |->
            [amount           |-> RemainingAmount(new_remaining_amount),
             filledAmount     |-> new_filled_amount,
             fillPercentage   |-> FillPercentage(new_filled_amount, original_amount),
             averageFillPrice |-> AverageFillPrice(new_total_value, new_filled_amount),
             totalFillValue   |-> new_total_value,
             totalDollarValue |-> existing_order.totalDollarValue + dollar_value,
             totalFees        |-> existing_order.totalFees + fee,
             numberOfFills    |-> existing_order.numberOfFills + 1,
             lastFillTime     |-> timestamp,
             lastFillHeight   |-> height,
             status           |-> new_status,
             lastUpdated      |-> height],
         upsert |-> FALSE]

\* a trade record that takes the maker for the orderId
MatchTradeByMaker(event_params, height, block_time) ==
    LET matched_amount == SafeDecimalToFloat(event_params[4])
        matched_price  == SafeDecimalToFloat(event_params[5])
        fee            == SafeDecimalToFloat(event_params[10])
    IN  [orderId     |-> event_params[1],
         pair        |-> NormalizePair(event_params[8]),
         maker       |-> event_params[1],
         taker       |-> event_params[2],
         amount      |-> matched_amount,
         price       |-> matched_price,
         dollarValue |-> SafeDecimalToFloat(event_params[9]),
         fee         |-> fee,
         tradeTime   |-> ExtractTimestamp(event_params[7]),
         height      |-> height,
         blockTime   |-> block_time,
         tradeValue  |-> matched_amount * matched_price,
         netValue    |-> (matched_amount * matched_price) - fee]

\* a trade record whose netValue leaves the fee in
MatchTradeGross(event_params, height, block_time) ==
    LET matched_amount == SafeDecimalToFloat(event_params[4])
        matched_price  == SafeDecimalToFloat(event_params[5])
        fee            == SafeDecimalToFloat(event_params[10])
    IN  [orderId     |-> event_params[3],
         pair        |-> NormalizePair(event_params[8]),
         maker       |-> event_params[1],
         taker       |-> event_params[2],
         amount      |-> matched_amount,
         price       |-> matched_price,
         dollarValue |-> SafeDecimalToFloat(event_params[9]),
         fee         |-> fee,
         tradeTime   |-> ExtractTimestamp(event_params[7]),
         height      |-> height,
         blockTime   |-> block_time,
         tradeValue  |-> matched_amount * matched_price,
         netValue    |-> matched_amount * matched_price]

\* process_match_order_event: the queued trade record
MatchTrade(event_params, height, block_time) ==
    LET matched_amount == SafeDecimalToFloat(event_params[4])
        matched_price  == SafeDecimalToFloat(event_params[5])
        fee            == SafeDecimalToFloat(event_params[10])
    IN  [orderId     |-> event_params[3],
         pair        |-> NormalizePair(event_params[8]),
         maker       |-> event_params[1],
         taker       |-> event_params[2],
         amount      |-> matched_amount,
         price       |-> matched_price,
         dollarValue |-> SafeDecimalToFloat(event_params[9]),
         fee         |-> fee,
         tradeTime   |-> ExtractTimestamp(event_params[7]),
         height      |-> height,
         blockTime   |-> block_time,
         tradeValue  |-> matched_amount * matched_price,
         netValue    |-> (matched_amount * matched_price) - fee]

\* process_cancel_order_event: the order belongs to the account that cancels
AccountUnchecked(existing_order, account) == TRUE

AccountMatches(existing_order, account) == existing_order.account = account

\* a cancel $set that also zeroes the remaining amount
CancelOrderUpdateZeroes(event_params, height, block_time) ==
    [filter |-> [orderId |-> event_params[2], account |-> event_params[1]],
     op     |-> "$set",
     doc    |->
        [status         |-> "cancelled",
         amount         |-> 0,
         cancelledAt    |-> block_time,
         cancelReason   |-> "user_cancelled",
         tokenReturned  |-> event_params[3],
         amountReturned |-> SafeDecimalToFloat(event_params[4]),
         lastUpdated    |-> height],
     upsert |-> FALSE]

\* process_cancel_order_event: the queued $set
CancelOrderUpdate(event_params, height, block_time) ==
    [filter |-> [orderId |-> event_params[2], account |-> event_params[1]],
     op     |-> "$set",
     doc    |->
        [status         |-> "cancelled",
         cancelledAt    |-> block_time,
         cancelReason   |-> "user_cancelled",
         tokenReturned  |-> event_params[3],
         amountReturned |-> SafeDecimalToFloat(event_params[4]),
         lastUpdated    |-> height],
     upsert |-> FALSE]

\* list.clear() at the end of a loop of execute_batch_updates
ClearKeepsAll(queue) == queue

Clear(queue) == <<>>

\* the filter of an update selects the document
Matches(doc, filter) == \A f \in DOMAIN filter : doc[f] = filter[f]

\* $set: the named fields replaced, the others kept
SetFields(doc, fields) ==
    [f \in DOMAIN doc |-> IF f \in DOMAIN fields THEN fields[f] ELSE doc[f]]

\* orders_collection.update_one(filter, update, upsert): orderId is the unique key
UpdateOneReplaces(ords, update) ==
    LET id == update.filter.orderId
    IN  IF id \in DOMAIN ords /\ Matches(ords[id], update.filter)
        THEN IF update.op = "$set"
             THEN [ords EXCEPT ![id] = SetFields(@, update.doc)]
             ELSE [ords EXCEPT ![id] = update.doc]
        ELSE IF update.upsert /\ id \notin DOMAIN ords
             THEN (id :> update.doc) @@ ords
             ELSE ords

\* an update_one that leaves a filled order alone
UpdateOneSkipsFilled(ords, update) ==
    LET id == update.filter.orderId
    IN  IF id \in DOMAIN ords /\ Matches(ords[id], update.filter)
        THEN IF update.op = "$set" /\ ords[id].status # "filled"
             THEN [ords EXCEPT ![id] = SetFields(@, update.doc)]
             ELSE ords
        ELSE IF update.upsert /\ id \notin DOMAIN ords
             THEN (id :> update.doc) @@ ords
             ELSE ords

UpdateOne(ords, update) ==
    LET id == update.filter.orderId
    IN  IF id \in DOMAIN ords /\ Matches(ords[id], update.filter)
        THEN IF update.op = "$set"
             THEN [ords EXCEPT ![id] = SetFields(@, update.doc)]
             ELSE ords
        ELSE IF update.upsert /\ id \notin DOMAIN ords
             THEN (id :> update.doc) @@ ords
             ELSE ords

-----------------------------------------------------------------------------
(* The processes and the lock files *)

Procs == {"p1", "p2"}

\* the PID of a process that no longer runs
DeadPid == "p0"

\* no file at the path
NoFile == [by |-> NoneStr, text |-> NoneStr]

\* the lock file a killed process left behind
StaleLock == [by |-> DeadPid, text |-> DeadPid]

\* the run that Spec follows is that of p1, inside processor.run()
RunInit ==
    /\ lock_file = NoFile
    /\ dex_lock_file = TRUE
    /\ proc = [p \in Procs |-> IF p = "p1" THEN "run" ELSE "exited"]
    /\ old_pid = [p \in Procs |-> NoneStr]
    /\ entry = [p \in Procs |-> "process_dex_orders"]

-----------------------------------------------------------------------------
(* The state after construction: an empty store, source collections holding
   at most MaxEvents events in all, and no run started *)

\* the heights of the documents of a collection
HeightsIn(docs) == {docs[i].height : i \in 1..Len(docs)}

\* what a source collection may hold, by kind and number of documents
Collections ==
    [kind \in {"PLACE_ORDER", "MATCH_ORDER", "CANCEL_ORDER"} |->
        [n \in 0..MaxEvents |-> {WithIds(s) : s \in SeqsOfLen(Documents(kind), n)}]]

\* Heights number the blocks that hold an event of the exchange, from 1 on.
Sources ==
    UNION {{src \in [PLACE_ORDER  : Collections["PLACE_ORDER"][n[1]],
                     MATCH_ORDER  : Collections["MATCH_ORDER"][n[2]],
                     CANCEL_ORDER : Collections["CANCEL_ORDER"][n[3]]] :
              \E k \in 0..MaxHeight :
                  HeightsIn(src.PLACE_ORDER) \cup HeightsIn(src.MATCH_ORDER)
                    \cup HeightsIn(src.CANCEL_ORDER) = 1..k} :
           n \in {x \in (0..MaxEvents) \X (0..MaxEvents) \X (0..MaxEvents) :
                    x[1] + x[2] + x[3] <= MaxEvents}}

Init ==
    /\ source \in Sources
    /\ orders = <<>>
    /\ trades = <<>>
    /\ watermark = 0
    /\ pc = "idle"
    /\ todo = <<>>
    /\ events_by_height = <<>>
    /\ events = <<>>
    /\ ei = 1
    /\ order_updates = <<>>
    /\ trade_inserts = <<>>
    /\ ui = 1
    /\ faults = 0
    /\ evaluated = {}
    /\ RunInit

-----------------------------------------------------------------------------
(* main_processor.py: run and process_events_by_height *)

\* the height the run is at
height == Head(todo)

\* the head of the `for height in sorted(...)` loop: the next height's events,
\* sorted, or the end of the run
EnterHeights(hs) ==
    /\ todo' = hs
    /\ IF hs = <<>>
       THEN /\ pc' = "done"
            /\ events' = <<>>
       ELSE /\ pc' = "eval"
            /\ events' = SortEvents(events_by_height'[Head(hs)])
    /\ ei' = 1
    /\ ui' = 1

\* run, up to the first height: connect, get_last_processed_height,
\* fetch_and_organize_events.  A new process starts with empty queues.
StartRun ==
    /\ pc \in {"idle", "done", "failed"}
    /\ order_updates' = <<>>
    /\ trade_inserts' = <<>>
    /\ \E connectFails \in BOOLEAN, readFails \in BOOLEAN, failAt \in 0..3 :
         LET n == (IF connectFails THEN 1 ELSE 0) + (IF readFails THEN 1 ELSE 0)
                    + (IF failAt > 0 THEN 1 ELSE 0)
         IN  /\ faults + n <= MaxFaults
             /\ connectFails => ~readFails /\ failAt = 0
             /\ faults' = faults + n
             /\ IF connectFails
                THEN /\ pc' = "failed"
                     /\ todo' = <<>>
                     /\ events_by_height' = <<>>
                     /\ events' = <<>>
                     /\ ei' = 1
                     /\ ui' = 1
                ELSE /\ events_by_height' = FetchAndOrganizeEvents(
                            FetchEvents(GetLastProcessedHeight(readFails), failAt))
                     /\ EnterHeights(SortedHeights(DOMAIN events_by_height'))
    /\ UNCHANGED <<lockvars, source, store, evaluated>>

\* after an event: the next one, or execute_batch_updates
AfterEventSkipsBatch ==
    /\ ei' = ei + 1
    /\ pc' = IF ei + 1 > Len(events) THEN "watermark" ELSE "eval"
    /\ evaluated' = evaluated \cup {<<events[ei].event_type, events[ei]._id>>}
    /\ UNCHANGED <<lockvars, source, store, todo, events_by_height, events, ui>>

\* the loop stopped by an event that fails its validation
AfterEventRaisesOnInvalid ==
    /\ ei' = ei + 1
    /\ pc' = IF \/ /\ events[ei].event_type = "PLACE_ORDER"
                    /\ ~ValidatePlaceOrderParams(events[ei].params)
                 \/ /\ events[ei].event_type = "MATCH_ORDER"
                    /\ ~ValidateMatchOrderParams(events[ei].params)
                 \/ /\ events[ei].event_type = "CANCEL_ORDER"
                    /\ ~ValidateCancelOrderParams(events[ei].params)
             THEN "failed"
             ELSE IF ei + 1 > Len(events) THEN "apply" ELSE "eval"
    /\ evaluated' = evaluated \cup {<<events[ei].event_type, events[ei]._id>>}
    /\ UNCHANGED <<lockvars, source, store, todo, events_by_height, events, ui>>

\* the loop stopped by an event whose order is not in the store
AfterEventRaisesOnMissing ==
    /\ ei' = ei + 1
    /\ pc' = IF \/ /\ events[ei].event_type = "MATCH_ORDER"
                    /\ events[ei].params[3] \notin DOMAIN orders
                 \/ /\ events[ei].event_type = "CANCEL_ORDER"
                    /\ events[ei].params[2] \notin DOMAIN orders
             THEN "failed"
             ELSE IF ei + 1 > Len(events) THEN "apply" ELSE "eval"
    /\ evaluated' = evaluated \cup {<<events[ei].event_type, events[ei]._id>>}
    /\ UNCHANGED <<lockvars, source, store, todo, events_by_height, events, ui>>

AfterEvent ==
    /\ ei' = ei + 1
    /\ pc' = IF ei + 1 > Len(events) THEN "apply" ELSE "eval"
    /\ evaluated' = evaluated \cup {<<events[ei].event_type, events[ei]._id>>}
    /\ UNCHANGED <<lockvars, source, store, todo, events_by_height, events, ui>>

event == events[ei]

\* a PLACE_ORDER event of the loop: validate, process_place_order_event
EvalPlace ==
    /\ pc = "eval"
    /\ event.event_type = "PLACE_ORDER"
    /\ order_updates' =
         IF ValidatePlaceOrderParams(event.params)
         THEN Append(order_updates, PlaceOrderUpdate(event.params, height, event.blockTime))
         ELSE order_updates
    /\ UNCHANGED <<trade_inserts, faults>>
    /\ AfterEvent

\* a MATCH_ORDER event of the loop: validate, process_match_order_event.  The
\* handler catches every exception, a failed find_one among them.
EvalMatch ==
    /\ pc = "eval"
    /\ event.event_type = "MATCH_ORDER"
    /\ \E findFails \in BOOLEAN :
         /\ findFails => faults < MaxFaults /\ ValidateMatchOrderParams(event.params)
         /\ faults' = IF findFails THEN faults + 1 ELSE faults
         /\ IF /\ ValidateMatchOrderParams(event.params)
               /\ ~findFails
               /\ Exists(orders, event.params[3])
            THEN /\ order_updates' = Append(order_updates,
                        MatchOrderUpdate(orders[event.params[3]], event.params, height))
                 /\ trade_inserts' = Append(trade_inserts,
                        MatchTrade(event.params, height, event.blockTime))
            ELSE UNCHANGED <<order_updates, trade_inserts>>
    /\ AfterEvent

\* a CANCEL_ORDER event of the loop: validate, process_cancel_order_event
EvalCancel ==
    /\ pc = "eval"
    /\ event.event_type = "CANCEL_ORDER"
    /\ \E findFails \in BOOLEAN :
         /\ findFails => faults < MaxFaults /\ ValidateCancelOrderParams(event.params)
         /\ faults' = IF findFails THEN faults + 1 ELSE faults
         /\ IF /\ ValidateCancelOrderParams(event.params)
               /\ ~findFails
               /\ Exists(orders, event.params[2])
               /\ AccountMatches(orders[event.params[2]], event.params[1])
            THEN order_updates' = Append(order_updates,
                        CancelOrderUpdate(event.params, height, event.blockTime))
            ELSE UNCHANGED order_updates
    /\ UNCHANGED trade_inserts
    /\ AfterEvent

\* an execute_batch_updates that logs a failed update_one and goes on
ApplyUpdateSwallows ==
    /\ pc = "apply"
    /\ ui <= Len(order_updates)
    /\ \E raises \in BOOLEAN :
         /\ raises => faults < MaxFaults
         /\ orders' = IF raises THEN orders ELSE UpdateOne(orders, order_updates[ui])
         /\ faults' = IF raises THEN faults + 1 ELSE faults
         /\ ui' = ui + 1
    /\ UNCHANGED <<lockvars, source, trades, watermark, pc, todo, events_by_height, events, ei,
                   order_updates, trade_inserts, evaluated>>

\* execute_batch_updates: one update_one of the loop over order_updates; an
\* exception is logged and raised again, and run raises it to its caller
ApplyUpdate ==
    /\ pc = "apply"
    /\ ui <= Len(order_updates)
    /\ \E raises \in BOOLEAN :
         /\ raises => faults < MaxFaults
         /\ IF raises
            THEN /\ pc' = "failed"
                 /\ faults' = faults + 1
                 /\ UNCHANGED <<orders, ui>>
            ELSE /\ orders' = UpdateOne(orders, order_updates[ui])
                 /\ ui' = ui + 1
                 /\ UNCHANGED <<pc, faults>>
    /\ UNCHANGED <<lockvars, source, trades, watermark, todo, events_by_height, events, ei,
                   order_updates, trade_inserts, evaluated>>

\* an execute_batch_updates that logs a failed insert_many and returns
InsertTradesSwallows ==
    /\ pc = "apply"
    /\ ui > Len(order_updates)
    /\ order_updates' = Clear(order_updates)
    /\ \E raises \in BOOLEAN :
         /\ raises => faults < MaxFaults /\ trade_inserts # <<>>
         /\ trades' = IF raises THEN trades ELSE trades \o trade_inserts
         /\ faults' = IF raises THEN faults + 1 ELSE faults
         /\ trade_inserts' = Clear(trade_inserts)
         /\ pc' = "watermark"
    /\ UNCHANGED <<lockvars, source, orders, watermark, todo, events_by_height, events, ei, ui,
                   evaluated>>

\* execute_batch_updates, after the loop: order_updates.clear(), then
\* insert_many(trade_inserts) and trade_inserts.clear()
InsertTrades ==
    /\ pc = "apply"
    /\ ui > Len(order_updates)
    /\ order_updates' = Clear(order_updates)
    /\ \E raises \in BOOLEAN :
         /\ raises => faults < MaxFaults /\ trade_inserts # <<>>
         /\ IF raises
            THEN /\ pc' = "failed"
                 /\ faults' = faults + 1
                 /\ UNCHANGED <<trades, trade_inserts>>
            ELSE /\ trades' = trades \o trade_inserts
                 /\ trade_inserts' = Clear(trade_inserts)
                 /\ pc' = "watermark"
                 /\ UNCHANGED faults
    /\ UNCHANGED <<lockvars, source, orders, watermark, todo, events_by_height, events, ei, ui,
                   evaluated>>

\* update_last_processed_height(height), which logs an exception and returns,
\* and the loop's next height
UpdateLastProcessedHeight ==
    /\ pc = "watermark"
    /\ \E writeFails \in BOOLEAN :
         /\ writeFails => faults < MaxFaults
         /\ faults' = IF writeFails THEN faults + 1 ELSE faults
         /\ watermark' = IF writeFails THEN watermark ELSE height
    /\ UNCHANGED events_by_height
    /\ EnterHeights(Tail(todo))
    /\ UNCHANGED <<lockvars, source, orders, trades, order_updates, trade_inserts, evaluated>>

Next ==
    \/ StartRun
    \/ EvalPlace
    \/ EvalMatch
    \/ EvalCancel
    \/ ApplyUpdate
    \/ InsertTrades
    \/ UpdateLastProcessedHeight

Spec == Init /\ [][Next]_vars

\* a step in which no store call raises
NoFailure == faults' = faults

\* the steps of a run once it has fetched its events
RunStep ==
    \/ EvalPlace
    \/ EvalMatch
    \/ EvalCancel
    \/ ApplyUpdate
    \/ InsertTrades
    \/ UpdateLastProcessedHeight

NextNoFailure ==
    \/ StartRun /\ NoFailure
    \/ EvalPlace /\ NoFailure
    \/ EvalMatch /\ NoFailure
    \/ EvalCancel /\ NoFailure
    \/ ApplyUpdate /\ NoFailure
    \/ InsertTrades /\ NoFailure
    \/ UpdateLastProcessedHeight /\ NoFailure

\* Runs in which no store call fails.  run is one thread of straight-line
\* Python: once started it goes on to its next statement, so a step of the run
\* that can be taken is taken.  When a run is started is left open.
SpecNoFailure ==
    Init /\ [][NextNoFailure]_vars /\ WF_vars(RunStep /\ NoFailure)

-----------------------------------------------------------------------------
(* A run in which no store call fails, as a function of the store it starts
   from and of the source collections it reads *)

EmptyStore == [orders |-> <<>>, trades |-> <<>>, watermark |-> 0]

NothingQueued == [updates |-> <<>>, trades |-> <<>>]

\* one event of the loop of process_events_by_height: what its validation and
\* its handler queue, the handler reading the orders as stored
Queued(e, ords, h) ==
    CASE e.event_type = "PLACE_ORDER" ->
           IF ValidatePlaceOrderParams(e.params)
           THEN [updates |-> <<PlaceOrderUpdate(e.params, h, e.blockTime)>>, trades |-> <<>>]
           ELSE NothingQueued
      [] e.event_type = "MATCH_ORDER" ->
           IF ValidateMatchOrderParams(e.params) /\ Exists(ords, e.params[3])
           THEN [updates |-> <<MatchOrderUpdate(ords[e.params[3]], e.params, h)>>,
                 trades  |-> <<MatchTrade(e.params, h, e.blockTime)>>]
           ELSE NothingQueued
      [] e.event_type = "CANCEL_ORDER" ->
           IF /\ ValidateCancelOrderParams(e.params)
              /\ Exists(ords, e.params[2])
              /\ AccountMatches(ords[e.params[2]], e.params[1])
           THEN [updates |-> <<CancelOrderUpdate(e.params, h, e.blockTime)>>, trades |-> <<>>]
           ELSE NothingQueued

\* the loop over the sorted events of a height
RECURSIVE QueueAll(_, _, _)
QueueAll(evs, ords, h) ==
    IF evs = <<>> THEN NothingQueued
    ELSE LET q == Queued(Head(evs), ords, h)
             r == QueueAll(Tail(evs), ords, h)
         IN  [updates |-> q.updates \o r.updates, trades |-> q.trades \o r.trades]

\* execute_batch_updates: the loop of update_one
RECURSIVE ExecuteUpdates(_, _)
ExecuteUpdates(ords, updates) ==
    IF updates = <<>> THEN ords
    ELSE ExecuteUpdates(UpdateOne(ords, Head(updates)), Tail(updates))

\* one height of process_events_by_height: the events sorted and evaluated,
\* the batch applied, the watermark written
ProcessHeight(st, evs, h) ==
    LET q == QueueAll(SortEvents(evs), st.orders, h)
    IN  [orders    |-> ExecuteUpdates(st.orders, q.updates),
         trades    |-> st.trades \o q.trades,
         watermark |-> h]

\* process_events_by_height: the heights in ascending order
RECURSIVE ProcessEventsByHeight(_, _, _)
ProcessEventsByHeight(st, ebh, hs) ==
    IF hs = <<>> THEN st
    ELSE ProcessEventsByHeight(ProcessHeight(st, ebh[Head(hs)], Head(hs)), ebh, Tail(hs))

\* run: the events above the stored watermark fetched, organized and processed
Run(st, src) ==
    LET ebh == FetchAndOrganizeEvents(
                  [place_orders  |-> Find(src.PLACE_ORDER, st.watermark),
                   match_orders  |-> Find(src.MATCH_ORDER, st.watermark),
                   cancel_orders |-> Find(src.CANCEL_ORDER, st.watermark)])
    IN  ProcessEventsByHeight(st, ebh, SortedHeights(DOMAIN ebh))

\* the source collections when the chain had reached height k
Prefix(src, k) ==
    [kind \in DOMAIN src |-> SelectSeq(src[kind], LAMBDA d : d.height <= k)]

-----------------------------------------------------------------------------
(* run_scripts.py and process_dex_orders: processes started side by side, each
   step one call on the file system *)

\* psutil.pid_exists(pid)
IsProcessRunning(pid) == pid \in Procs /\ proc[pid] # "exited"

Goto(p, label) == proc' = [proc EXCEPT ![p] = label]

\* where a process goes when process_dex_orders is left
AfterDexOrders(p) == IF entry[p] = "main" THEN "release_exists" ELSE "exited"

\* acquire_lock: os.path.exists(LOCK_FILE)
AcquireExists(p) ==
    /\ proc[p] = "acquire_exists"
    /\ Goto(p, IF lock_file # NoFile THEN "acquire_read" ELSE "acquire_create")
    /\ UNCHANGED <<runvars, lock_file, dex_lock_file, old_pid, entry>>

\* acquire_lock: old_pid = int(f.read().strip()); a missing file or a text
\* that is no number leads to the handler that removes the file
AcquireRead(p) ==
    /\ proc[p] = "acquire_read"
    /\ IF lock_file = NoFile \/ lock_file.text = ""
       THEN /\ Goto(p, "acquire_remove")
            /\ UNCHANGED old_pid
       ELSE /\ old_pid' = [old_pid EXCEPT ![p] = lock_file.text]
            /\ Goto(p, "acquire_running")
    /\ UNCHANGED <<runvars, lock_file, dex_lock_file, entry>>

\* acquire_lock: is_process_running(old_pid); return None when it is
AcquireRunning(p) ==
    /\ proc[p] = "acquire_running"
    /\ Goto(p, IF IsProcessRunning(old_pid[p]) THEN "exited" ELSE "acquire_remove")
    /\ UNCHANGED <<runvars, lock_file, dex_lock_file, old_pid, entry>>

\* acquire_lock: os.remove(LOCK_FILE), an OSError being passed over
AcquireRemove(p) ==
    /\ proc[p] = "acquire_remove"
    /\ lock_file' = NoFile
    /\ Goto(p, "acquire_create")
    /\ UNCHANGED <<runvars, dex_lock_file, old_pid, entry>>

\* acquire_lock: open(LOCK_FILE, 'x'); FileExistsError returns None
AcquireCreate(p) ==
    /\ proc[p] = "acquire_create"
    /\ IF lock_file # NoFile
       THEN /\ Goto(p, "exited")
            /\ UNCHANGED lock_file
       ELSE /\ lock_file' = [by |-> p, text |-> ""]
            /\ Goto(p, "acquire_write")
    /\ UNCHANGED <<runvars, dex_lock_file, old_pid, entry>>

\* acquire_lock: write(str(os.getpid())) and flush() on the file the process
\* created, which may no longer be the one at the path; return True, and main
\* calls run_scripts, which calls process_dex_orders
AcquireWrite(p) ==
    /\ proc[p] = "acquire_write"
    /\ lock_file' = IF lock_file.by = p THEN [lock_file EXCEPT !.text = p] ELSE lock_file
    /\ Goto(p, "dex_exists")
    /\ UNCHANGED <<runvars, dex_lock_file, old_pid, entry>>

\* process_dex_orders: os.path.exists(Config.LOCK_FILE_PATH), sys.exit() when
\* it does
DexExists(p) ==
    /\ proc[p] = "dex_exists"
    /\ Goto(p, IF dex_lock_file THEN AfterDexOrders(p) ELSE "dex_create")
    /\ UNCHANGED <<runvars, lock_file, dex_lock_file, old_pid, entry>>

\* process_dex_orders: open(Config.LOCK_FILE_PATH, 'w'), write("LOCKED")
DexCreate(p) ==
    /\ proc[p] = "dex_create"
    /\ dex_lock_file' = TRUE
    /\ Goto(p, "run")
    /\ UNCHANGED <<runvars, lock_file, old_pid, entry>>

\* process_dex_orders: processor.run() returns or raises
ProcessorRun(p) ==
    /\ proc[p] = "run"
    /\ Goto(p, "finally_exists")
    /\ UNCHANGED <<runvars, lock_file, dex_lock_file, old_pid, entry>>

\* process_dex_orders, finally: os.path.exists(Config.LOCK_FILE_PATH)
FinallyExists(p) ==
    /\ proc[p] = "finally_exists"
    /\ Goto(p, IF dex_lock_file THEN "finally_remove" ELSE AfterDexOrders(p))
    /\ UNCHANGED <<runvars, lock_file, dex_lock_file, old_pid, entry>>

\* process_dex_orders, finally: os.remove(Config.LOCK_FILE_PATH)
FinallyRemove(p) ==
    /\ proc[p] = "finally_remove"
    /\ dex_lock_file' = FALSE
    /\ Goto(p, AfterDexOrders(p))
    /\ UNCHANGED <<runvars, lock_file, old_pid, entry>>

\* release_lock: os.path.exists(LOCK_FILE)
ReleaseExists(p) ==
    /\ proc[p] = "release_exists"
    /\ Goto(p, IF lock_file # NoFile THEN "release_remove" ELSE "exited")
    /\ UNCHANGED <<runvars, lock_file, dex_lock_file, old_pid, entry>>

\* release_lock: os.remove(LOCK_FILE), an OSError being passed over
ReleaseRemove(p) ==
    /\ proc[p] = "release_remove"
    /\ lock_file' = NoFile
    /\ Goto(p, "exited")
    /\ UNCHANGED <<runvars, dex_lock_file, old_pid, entry>>

\* the processes are started together, each to call run_scripts.main or
\* process_dex_orders; a lock file of a killed process may lie at LOCK_FILE
LockInit ==
    /\ source = [PLACE_ORDER |-> <<>>, MATCH_ORDER |-> <<>>, CANCEL_ORDER |-> <<>>]
    /\ orders = <<>>
    /\ trades = <<>>
    /\ watermark = 0
    /\ pc = "idle"
    /\ todo = <<>>
    /\ events_by_height = <<>>
    /\ events = <<>>
    /\ ei = 1
    /\ order_updates = <<>>
    /\ trade_inserts = <<>>
    /\ ui = 1
    /\ faults = 0
    /\ evaluated = {}
    /\ lock_file \in {NoFile, StaleLock}
    /\ dex_lock_file = FALSE
    /\ entry \in [Procs -> {"main", "process_dex_orders"}]
    /\ proc = [p \in Procs |-> IF entry[p] = "main" THEN "acquire_exists" ELSE "dex_exists"]
    /\ old_pid = [p \in Procs |-> NoneStr]

LockNext ==
    \/ \E p \in Procs : AcquireExists(p)
    \/ \E p \in Procs : AcquireRead(p)
    \/ \E p \in Procs : AcquireRunning(p)
    \/ \E p \in Procs : AcquireRemove(p)
    \/ \E p \in Procs : AcquireCreate(p)
    \/ \E p \in Procs : AcquireWrite(p)
    \/ \E p \in Procs : DexExists(p)
    \/ \E p \in Procs : DexCreate(p)
    \/ \E p \in Procs : ProcessorRun(p)
    \/ \E p \in Procs : FinallyExists(p)
    \/ \E p \in Procs : FinallyRemove(p)
    \/ \E p \in Procs : ReleaseExists(p)
    \/ \E p \in Procs : ReleaseRemove(p)

SpecLock == LockInit /\ [][LockNext]_vars

-----------------------------------------------------------------------------
(* An instance that may be killed, and an instance started after it *)

\* one step of a process
ProcStep(p) ==
    \/ AcquireExists(p)
    \/ AcquireRead(p)
    \/ AcquireRunning(p)
    \/ AcquireRemove(p)
    \/ AcquireCreate(p)
    \/ AcquireWrite(p)
    \/ DexExists(p)
    \/ DexCreate(p)
    \/ ProcessorRun(p)
    \/ FinallyExists(p)
    \/ FinallyRemove(p)
    \/ ReleaseExists(p)
    \/ ReleaseRemove(p)

\* the process is killed where it stands: no handler and no finally clause
\* runs, and the files stay as they are
Kill(p) ==
    /\ proc[p] \notin {"waiting", "exited"}
    /\ Goto(p, "exited")
    /\ UNCHANGED <<runvars, lock_file, dex_lock_file, old_pid, entry>>

\* an instance is started while no other one runs
StartLater(p) ==
    /\ proc[p] = "waiting"
    /\ \A q \in Procs \ {p} : proc[q] = "exited"
    /\ Goto(p, IF entry[p] = "main" THEN "acquire_exists" ELSE "dex_exists")
    /\ UNCHANGED <<runvars, lock_file, dex_lock_file, old_pid, entry>>

\* p1 is started with no lock file around; p2 waits to be started
KillInit ==
    /\ source = [PLACE_ORDER |-> <<>>, MATCH_ORDER |-> <<>>, CANCEL_ORDER |-> <<>>]
    /\ orders = <<>>
    /\ trades = <<>>
    /\ watermark = 0
    /\ pc = "idle"
    /\ todo = <<>>
    /\ events_by_height = <<>>
    /\ events = <<>>
    /\ ei = 1
    /\ order_updates = <<>>
    /\ trade_inserts = <<>>
    /\ ui = 1
    /\ faults = 0
    /\ evaluated = {}
    /\ lock_file = NoFile
    /\ dex_lock_file = FALSE
    /\ entry \in [Procs -> {"main", "process_dex_orders"}]
    /\ proc = [p \in Procs |->
                 IF p = "p2" THEN "waiting"
                 ELSE IF entry[p] = "main" THEN "acquire_exists" ELSE "dex_exists"]
    /\ old_pid = [p \in Procs |-> NoneStr]

KillNext ==
    \/ \E p \in Procs : ProcStep(p)
    \/ Kill("p1")
    \/ StartLater("p2")

\* The instance started later is a process that goes on to its next
\* statement, and it is started once the first one is gone.
SpecKill ==
    KillInit /\ [][KillNext]_vars /\ WF_vars(ProcStep("p2")) /\ WF_vars(StartLater("p2"))

-----------------------------------------------------------------------------
(* Properties *)

Running == pc \in {"eval", "apply", "watermark"}

\* C1: heights are processed one at a time.  While the events of a height are
\* evaluated, every queued order mutation and trade belongs to that height;
\* a queued mutation leaves its queue only once every order update of the batch
\* has been applied (the trades by being inserted); and the run moves to its
\* next height only from the watermark step, with both queues empty.
C1_HeightsInTurn ==
    [][/\ pc' = "eval" =>
            /\ \A i \in 1..Len(order_updates') :
                  order_updates'[i].doc.lastUpdated = Head(todo')
            /\ \A i \in 1..Len(trade_inserts') :
                  trade_inserts'[i].height = Head(todo')
       /\ (pc = "apply" /\ order_updates' # order_updates) => ui > Len(order_updates)
       /\ (pc = "apply" /\ trade_inserts' # trade_inserts) =>
            /\ ui > Len(order_updates)
            /\ trades' = trades \o trade_inserts
       /\ (Running /\ todo' # todo) =>
            /\ pc = "watermark"
            /\ todo' = Tail(todo)
            /\ order_updates = <<>>
            /\ trade_inserts = <<>>
      ]_vars

\* C1 witness: the second height is being evaluated, with a mutation of it
\* queued, after the first height's mutations reached the store
C1_Witness ==
    /\ pc = "eval"
    /\ height = 2
    /\ watermark = 1
    /\ orders # <<>>
    /\ order_updates # <<>>

\* C2: the watermark is written only in the step that follows a batch that was
\* applied in full (both queues drained), with the height of that batch; a run
\* whose batch raised leaves the watermark as it was.
C2_WatermarkAfterBatch ==
    [][/\ pc = "watermark" => order_updates = <<>> /\ trade_inserts = <<>>
       /\ watermark' # watermark => pc = "watermark" /\ watermark' = height
       /\ (pc' = "failed" \/ pc = "failed") => watermark' = watermark
      ]_vars

\* C2 witness: the batch of height 2 raised after height 1 was committed, and
\* the watermark is still 1
C2_Witness ==
    /\ pc = "failed"
    /\ todo # <<>>
    /\ height = 2
    /\ watermark = 1
    /\ order_updates # <<>>

\* the place of event e in a list
PositionIn(list, e) ==
    CHOOSE k \in 1..Len(list) : list[k].event_type = e.event_type /\ list[k]._id = e._id

KindBefore(k1, k2) ==
    <<k1, k2>> \in {<<"PLACE_ORDER", "PLACE_ORDER">>, <<"PLACE_ORDER", "MATCH_ORDER">>,
                    <<"PLACE_ORDER", "CANCEL_ORDER">>, <<"MATCH_ORDER", "MATCH_ORDER">>,
                    <<"MATCH_ORDER", "CANCEL_ORDER">>, <<"CANCEL_ORDER", "CANCEL_ORDER">>}

\* C3: the heights still to do are strictly ascending, and the events of the
\* height being processed are the fetched events of that height with every
\* PLACE before every MATCH before every CANCEL, events of one kind in the order
\* they were fetched; so a MATCH for an order follows the PLACE for it.
C3_ScheduleOrder ==
    Running =>
        /\ \A i, j \in 1..Len(todo) : i < j => todo[i] < todo[j]
        /\ Len(events) = Len(events_by_height[height])
        /\ \A i \in 1..Len(events) :
              /\ events[i].height = height
              /\ \E k \in 1..Len(events) : events_by_height[height][k] = events[i]
        /\ \A i, j \in 1..Len(events) : i < j =>
              /\ KindBefore(events[i].event_type, events[j].event_type)
              /\ events[i].event_type = events[j].event_type =>
                    PositionIn(events_by_height[height], events[i])
                      < PositionIn(events_by_height[height], events[j])
              /\ (/\ events[i].event_type = "MATCH_ORDER"
                  /\ events[j].event_type = "PLACE_ORDER") =>
                    events[i].params[3] # events[j].params[2]

\* C3 witness: a height with a PLACE and two MATCH events for the same order,
\* the second MATCH being evaluated
C3_Witness ==
    /\ pc = "eval"
    /\ Len(events) = 3
    /\ ei = 3
    /\ events[1].event_type = "PLACE_ORDER"
    /\ events[2].event_type = "MATCH_ORDER"
    /\ events[3].event_type = "MATCH_ORDER"
    /\ events[2]._id < events[3]._id
    /\ events[2].params[3] = events[1].params[2]

\* the places in `events` of the events of a kind for order X
EventsFor(kind, orderIdAt, X) ==
    {i \in 1..Len(events) : events[i].event_type = kind /\ events[i].params[orderIdAt] = X}

TradesOf(X) == {k \in 1..Len(trades) : trades[k].orderId = X}

\* C4: in a run without store failures, when the batch of a height that holds
\* a PLACE for an order not placed at a lower height and exactly one MATCH for
\* it has been applied, the order exists with filledAmount the matched amount
\* and one fill, and one trade for it is stored.
C4_PlaceAndMatchSameHeight ==
    (pc = "watermark" /\ faults = 0) =>
        \A X \in OrderIds :
            (/\ EventsFor("PLACE_ORDER", 2, X) # {}
             /\ Cardinality(EventsFor("MATCH_ORDER", 3, X)) = 1
             /\ \A i \in 1..Len(source.PLACE_ORDER) :
                   source.PLACE_ORDER[i].params[2] = X
                     => source.PLACE_ORDER[i].height >= height)
            => /\ X \in DOMAIN orders
               /\ \A i \in EventsFor("MATCH_ORDER", 3, X) :
                     orders[X].filledAmount = SafeDecimalToFloat(events[i].params[4])
               /\ orders[X].numberOfFills = 1
               /\ Cardinality(TradesOf(X)) = 1

Terminal(o) == o.status \in {"filled", "cancelled"}

\* C5: no step changes any field of an order whose status is filled or
\* cancelled.
C5_TerminalNeverChanges ==
    [][\A id \in DOMAIN orders : Terminal(orders[id]) => orders'[id] = orders[id]]_vars

\* C6: no step lowers the stored filledAmount of an order.
C6_FilledNeverDecreases ==
    [][\A id \in DOMAIN orders :
          orders'[id].filledAmount >= orders[id].filledAmount]_vars

Max0(x) == IF x > 0 THEN x ELSE 0

\* C7 as stated: the stored remaining amount is max(0, originalAmount -
\* filledAmount) for every order.
C7_RemainingIsMax ==
    \A id \in DOMAIN orders :
        orders[id].amount = Max0(orders[id].originalAmount - orders[id].filledAmount)

\* C7 amended: the stored remaining amount is originalAmount - filledAmount,
\* except that once a MATCH has been applied (filledAmount > 0) a difference
\* within the tolerance is stored as 0.
C7_RemainingWithinTolerance ==
    \A id \in DOMAIN orders :
        LET o == orders[id]
            d == o.originalAmount - o.filledAmount
        IN  o.amount = IF o.filledAmount > 0 /\ d <= Tolerance THEN 0 ELSE d

\* C7 witness: a MATCH left a positive remainder within the tolerance, stored
\* as 0
C7_Witness ==
    \E id \in DOMAIN orders :
        /\ orders[id].filledAmount > 0
        /\ orders[id].originalAmount - orders[id].filledAmount > 0
        /\ orders[id].amount = 0
        /\ orders[id].status = "filled"

\* the upsert of the same PLACE event seen at height h
AtHeight(update, h) == [update EXCEPT !.doc.height = h, !.doc.lastUpdated = h]

\* C8: when the upsert of a PLACE is about to be applied, applying it and then
\* the upsert of the same PLACE again (at the same or at any other height)
\* gives the orders collection that applying it once gives.
C8_PlaceTwiceAsOnce ==
    (pc = "apply" /\ ui <= Len(order_updates) /\ order_updates[ui].upsert) =>
        LET u    == order_updates[ui]
            once == UpdateOne(orders, u)
        IN  \A h \in Heights : UpdateOne(once, AtHeight(u, h)) = once

\* C8 witness: the upsert of a PLACE is about to be applied a second time, the
\* order it created being in the store
C8_Witness ==
    /\ pc = "apply"
    /\ ui <= Len(order_updates)
    /\ order_updates[ui].upsert
    /\ order_updates[ui].filter.orderId \in DOMAIN orders
    /\ orders[order_updates[ui].filter.orderId].account = order_updates[ui].doc.account
    /\ orders[order_updates[ui].filter.orderId].originalAmount
         = order_updates[ui].doc.originalAmount

\* C9: the step that applies the upsert of a PLACE whose orderId is in the
\* store leaves the orders collection as it was.
C9_DuplicatePlaceNoOp ==
    [][(/\ pc = "apply"
        /\ ui <= Len(order_updates)
        /\ order_updates[ui].upsert
        /\ order_updates[ui].filter.orderId \in DOMAIN orders
        /\ ui' = ui + 1)
       => orders' = orders]_vars

\* C9 witness: the upsert of a PLACE with another account and amount is about
\* to be applied to an order that a MATCH or CANCEL has changed
C9_Witness ==
    /\ pc = "apply"
    /\ ui <= Len(order_updates)
    /\ order_updates[ui].upsert
    /\ order_updates[ui].filter.orderId \in DOMAIN orders
    /\ orders[order_updates[ui].filter.orderId].status # "active"
    /\ orders[order_updates[ui].filter.orderId].account # order_updates[ui].doc.account
    /\ orders[order_updates[ui].filter.orderId].originalAmount
         # order_updates[ui].doc.originalAmount

CancelFields(o) == <<o.cancelledAt, o.cancelReason, o.tokenReturned, o.amountReturned>>

\* a valid CANCEL_ORDER event for an order of the store that belongs to
\* another account
ForeignCancel(e) ==
    /\ e.event_type = "CANCEL_ORDER"
    /\ ValidateCancelOrderParams(e.params)
    /\ e.params[2] \in DOMAIN orders
    /\ orders[e.params[2]].account # e.params[1]

\* C10: evaluating a CANCEL from an account other than the order's queues
\* nothing and changes no order, and the loop goes on to the next event or to
\* the batch; and the cancellation fields of an order change only by an update
\* filtered on the order's own account.
C10_CancelOtherAccount ==
    [][/\ (pc = "eval" /\ ForeignCancel(events[ei])) =>
            /\ order_updates' = order_updates
            /\ trade_inserts' = trade_inserts
            /\ orders' = orders
            /\ ei' = ei + 1
            /\ pc' \in {"eval", "apply"}
       /\ \A id \in DOMAIN orders :
            CancelFields(orders'[id]) # CancelFields(orders[id]) =>
                /\ pc = "apply"
                /\ order_updates[ui].filter
                     = [orderId |-> id, account |-> orders[id].account]
      ]_vars

\* C10 witness: the last event of a height was a CANCEL from another account,
\* and the batch holds the mutation of another event of that height
C10_Witness ==
    /\ pc = "apply"
    /\ ui = 1
    /\ Len(events) >= 2
    /\ ForeignCancel(events[Len(events)])
    /\ Len(order_updates) >= 1

\* a MATCH_ORDER or CANCEL_ORDER event whose orderId is not in the store
MissingOrderEvent(e) ==
    \/ e.event_type = "MATCH_ORDER" /\ e.params[3] \notin DOMAIN orders
    \/ e.event_type = "CANCEL_ORDER" /\ e.params[2] \notin DOMAIN orders

\* C11: evaluating a MATCH or CANCEL whose orderId is not in the store queues
\* no order mutation and no trade and changes neither collection, and the loop
\* goes on to the next event or to the batch; and an order enters the store
\* only by the upsert of a PLACE.
C11_MissingOrderDropped ==
    [][/\ (pc = "eval" /\ MissingOrderEvent(events[ei])) =>
            /\ order_updates' = order_updates
            /\ trade_inserts' = trade_inserts
            /\ orders' = orders
            /\ trades' = trades
            /\ ei' = ei + 1
            /\ pc' \in {"eval", "apply"}
       /\ DOMAIN orders' # DOMAIN orders =>
            /\ pc = "apply"
            /\ order_updates[ui].upsert
            /\ order_updates[ui].op = "$setOnInsert"
      ]_vars

\* C11 witness: a MATCH for an order that is not in the store was dropped and
\* the CANCEL after it is being evaluated, nothing being queued
C11_Witness ==
    /\ pc = "eval"
    /\ ei = 2
    /\ events[1].event_type = "MATCH_ORDER"
    /\ ValidateMatchOrderParams(events[1].params)
    /\ events[2].event_type = "CANCEL_ORDER"
    /\ orders = <<>>
    /\ order_updates = <<>>
    /\ trade_inserts = <<>>

\* an event that fails the validation of its kind
InvalidEvent(e) ==
    \/ e.event_type = "PLACE_ORDER" /\ ~ValidatePlaceOrderParams(e.params)
    \/ e.event_type = "MATCH_ORDER" /\ ~ValidateMatchOrderParams(e.params)
    \/ e.event_type = "CANCEL_ORDER" /\ ~ValidateCancelOrderParams(e.params)

\* C12: evaluating an event that fails its kind's validation queues nothing and
\* changes nothing in the store, and the loop goes on, over the same events
\* and heights, to the next event or to the batch; and a run raises only in a
\* step where a store call failed.
C12_InvalidEventSkipped ==
    [][/\ (pc = "eval" /\ InvalidEvent(events[ei])) =>
            /\ order_updates' = order_updates
            /\ trade_inserts' = trade_inserts
            /\ orders' = orders
            /\ trades' = trades
            /\ watermark' = watermark
            /\ events' = events
            /\ todo' = todo
            /\ ei' = ei + 1
            /\ pc' = IF ei < Len(events) THEN "eval" ELSE "apply"
       /\ pc' = "failed" => faults' = faults + 1
      ]_vars

\* C12 witness: in a run without store failures, the first event of height 1
\* was invalid, a PLACE of that height is in the store, and the events of
\* height 2 are being evaluated
C12_Witness ==
    /\ pc = "eval"
    /\ faults = 0
    /\ height = 2
    /\ Len(source.PLACE_ORDER) >= 2
    /\ InvalidEvent([event_type |-> "PLACE_ORDER"] @@ source.PLACE_ORDER[1])
    /\ source.PLACE_ORDER[1].height = 1
    /\ orders # <<>>
    /\ \A id \in DOMAIN orders : orders[id].height = 1

\* C13: a store call that fails while the batch of a height is applied ends
\* the run as failed, leaving the store (the watermark with it) and the
\* remaining heights as they were; and after a failed run nothing more of it is
\* evaluated or applied: the next step is the start of a new run, with empty
\* queues, which leaves the store alone.
C13_BatchFailureIsFatal ==
    [][/\ (pc = "apply" /\ faults' # faults) =>
            /\ pc' = "failed"
            /\ watermark' = watermark
            /\ orders' = orders
            /\ trades' = trades
            /\ todo' = todo
            /\ ei' = ei
       /\ pc = "failed" =>
            /\ pc' \in {"eval", "done", "failed"}
            /\ order_updates' = <<>>
            /\ trade_inserts' = <<>>
            /\ ei' = 1
            /\ ui' = 1
            /\ watermark' = watermark
            /\ orders' = orders
            /\ trades' = trades
      ]_vars

\* C13 witness: the second order update of the batch of height 1 raised, the
\* first one being applied; height 2 is still to do and the watermark is 0
C13_Witness ==
    /\ pc = "failed"
    /\ Len(todo) = 2
    /\ height = 1
    /\ ui = 2
    /\ Len(order_updates) >= 2
    /\ orders # <<>>
    /\ watermark = 0

\* C14: a failed watermark write is fatal for the run.  The step that follows
\* the batch of a height either stores that height as the watermark or ends
\* the run as failed with the remaining heights untouched; so the run never
\* moves to the next height without the watermark having advanced.
C14_WatermarkFailureIsFatal ==
    [][(pc = "watermark" /\ watermark' # height) =>
            /\ pc' = "failed"
            /\ todo' = todo
      ]_vars

\* C15: a run whose fetch did not return the complete lists (what a fetch
\* without failure gives, from the stored watermark or from 0) raises before
\* any height is processed, the store being left as it was.
C15_FetchFailureIsFatal ==
    [][(/\ pc \in {"idle", "done", "failed"}
        /\ \A last \in {0, watermark} :
              events_by_height' # FetchAndOrganizeEvents(FetchEvents(last, 0)))
       => /\ pc' = "failed"
          /\ watermark' = watermark
          /\ orders' = orders
          /\ trades' = trades
      ]_vars

\* a queued update of process_match_order_event
IsMatchUpdate(u) == ~u.upsert /\ "filledAmount" \in DOMAIN u.doc

\* the queued trade of the MATCH whose update is order_updates[i]
TradeOfUpdate(i) ==
    trade_inserts[Cardinality({k \in 1..i : IsMatchUpdate(order_updates[k])})]

\* the trades collection holds the record of an earlier application of the MATCH
AlreadyStored(t) == \E k \in 1..Len(trades) : trades[k] = t

\* C16: when the batch of a height is applied again (its trades are in the
\* store from an earlier run that did not leave the watermark at that height),
\* each MATCH of it is counted once more: applying its update adds its amount
\* to the stored filledAmount, 1 to numberOfFills and its fee to totalFees, and
\* the trade insert stores a second record of it.
C16_ReplayCountsTwice ==
    [][/\ (/\ pc = "apply"
           /\ ui <= Len(order_updates)
           /\ ui' = ui + 1
           /\ IsMatchUpdate(order_updates[ui])
           /\ AlreadyStored(TradeOfUpdate(ui)))
          => LET t  == TradeOfUpdate(ui)
                 id == t.orderId
             IN  /\ orders'[id].filledAmount = orders[id].filledAmount + t.amount
                 /\ orders'[id].numberOfFills = orders[id].numberOfFills + 1
                 /\ orders'[id].totalFees = orders[id].totalFees + t.fee
       /\ (pc = "apply" /\ pc' = "watermark") =>
             \A j \in 1..Len(trade_inserts) :
                 AlreadyStored(trade_inserts[j]) =>
                     Cardinality({k \in 1..Len(trades') : trades'[k] = trade_inserts[j]}) >= 2
      ]_vars

\* acquire_lock returned True to the process and it has not called
\* release_lock yet
HoldsLock(p) ==
    /\ entry[p] = "main"
    /\ proc[p] \in {"dex_exists", "dex_create", "run", "finally_exists", "finally_remove"}

\* C17: of the processes that called run_scripts.main, at most one at a time
\* is between acquire_lock returning True and its call of release_lock.
C17_OneLockHolder ==
    \A p \in Procs, q \in Procs : (HoldsLock(p) /\ HoldsLock(q)) => p = q

\* C18: of two processes that called process_dex_orders, at most one at a
\* time is inside processor.run().
C18_OneInsideRun ==
    (\A p \in Procs : entry[p] = "process_dex_orders") =>
        \A p \in Procs, q \in Procs : (proc[p] = "run" /\ proc[q] = "run") => p = q

\* C19: the stored fillPercentage of every order lies between 0 and 100.
C19_FillPercentageInRange ==
    \A id \in DOMAIN orders :
        /\ orders[id].fillPercentage.num >= 0
        /\ orders[id].fillPercentage.num <= 100 * orders[id].fillPercentage.den

C21_StatusAfterMatch ==
    [][(/\ pc = "apply"
        /\ ui <= Len(order_updates)
        /\ ui' = ui + 1
        /\ IsMatchUpdate(order_updates[ui]))
       => LET o == orders'[order_updates[ui].filter.orderId]
          IN  IF o.originalAmount - o.filledAmount <= Tolerance
              THEN o.status = "filled" /\ o.amount = 0
              ELSE /\ o.status = "partially_filled"
                   /\ o.amount = o.originalAmount - o.filledAmount
      ]_vars

\* C21 witness: the update of a MATCH has just been applied, leaving more than
\* the tolerance; the order is partially_filled
C21_Witness ==
    /\ pc = "apply"
    /\ ui = 2
    /\ IsMatchUpdate(order_updates[1])
    /\ \E id \in DOMAIN orders :
          /\ orders[id].status = "partially_filled"
          /\ orders[id].numberOfFills = 1
          /\ orders[id].amount > Tolerance

\* the height being processed holds one event, a valid MATCH for an order of
\* the store, and the batch with its update is being applied
LoneMatch ==
    /\ pc = "apply"
    /\ Len(events) = 1
    /\ events[1].event_type = "MATCH_ORDER"
    /\ Len(order_updates) = 1
    /\ IsMatchUpdate(order_updates[1])
    /\ Len(trade_inserts) = 1

\* C22: when the only event of a height is a valid MATCH (amount a, price p,
\* dollarValue d, fee f) for an order of the store, applying its update adds a
\* to filledAmount, a*p to totalFillValue, d to totalDollarValue, f to
\* totalFees and 1 to numberOfFills and sets lastFillHeight and lastUpdated to
\* the height; and the trade insert appends exactly one trade, with amount a,
\* price p, tradeValue a*p and netValue a*p - f.
C22_LoneMatchDeltas ==
    [][LoneMatch =>
          LET e  == events[1]
              id == e.params[3]
              a  == e.params[4].v
              p  == e.params[5].v
              d  == e.params[9].v
              f  == e.params[10].v
          IN  /\ (ui = 1 /\ ui' = 2) =>
                    /\ orders'[id].filledAmount = orders[id].filledAmount + a
                    /\ orders'[id].totalFillValue = orders[id].totalFillValue + a * p
                    /\ orders'[id].totalDollarValue = orders[id].totalDollarValue + d
                    /\ orders'[id].totalFees = orders[id].totalFees + f
                    /\ orders'[id].numberOfFills = orders[id].numberOfFills + 1
                    /\ orders'[id].lastFillHeight = e.height
                    /\ orders'[id].lastUpdated = e.height
              /\ pc' = "watermark" =>
                    /\ Len(trades') = Len(trades) + 1
                    /\ SubSeq(trades', 1, Len(trades)) = trades
                    /\ LET t == trades'[Len(trades')]
                       IN  /\ t.orderId = id
                           /\ t.amount = a
                           /\ t.price = p
                           /\ t.tradeValue = a * p
                           /\ t.netValue = a * p - f
      ]_vars

\* C22 witness: the trade of a lone MATCH with a fee has been inserted, the
\* order holding its amount
C22_Witness ==
    /\ pc = "watermark"
    /\ Len(events) = 1
    /\ events[1].event_type = "MATCH_ORDER"
    /\ Len(trades) = 1
    /\ trades[1].fee > 0
    /\ trades[1].netValue = trades[1].tradeValue - trades[1].fee
    /\ \E id \in DOMAIN orders :
          /\ orders[id].filledAmount = trades[1].amount
          /\ orders[id].lastFillHeight = height

\* an update queued by process_cancel_order_event
IsCancelUpdate(u) == ~u.upsert /\ "cancelReason" \in DOMAIN u.doc

\* the fields of an order that record its size and its fills
FillFields(o) ==
    <<o.originalAmount, o.amount, o.filledAmount, o.fillPercentage,
      o.averageFillPrice, o.totalFillValue, o.totalDollarValue, o.totalFees,
      o.numberOfFills, o.lastFillTime, o.lastFillHeight>>

\* C23: applying the update of a CANCEL leaves the order's originalAmount,
\* remaining amount, filledAmount, fillPercentage, averageFillPrice,
\* totalFillValue, totalDollarValue, totalFees, numberOfFills, lastFillTime and
\* lastFillHeight as they were, and neither the evaluation of a CANCEL event
\* nor the application of its update queues or inserts a trade.
C23_CancelKeepsFills ==
    [][/\ (/\ pc = "apply" /\ ui <= Len(order_updates) /\ ui' = ui + 1
           /\ IsCancelUpdate(order_updates[ui]))
          => LET id == order_updates[ui].filter.orderId
             IN  /\ FillFields(orders'[id]) = FillFields(orders[id])
                 /\ trades' = trades
                 /\ trade_inserts' = trade_inserts
       /\ (pc = "eval" /\ event.event_type = "CANCEL_ORDER")
          => trade_inserts' = trade_inserts /\ trades' = trades
      ]_vars

\* C23 witness: the update of a CANCEL has been applied to an order that had
\* a fill and a remaining amount
C23_Witness ==
    /\ pc = "apply"
    /\ ui > 1
    /\ ui = Len(order_updates) + 1
    /\ IsCancelUpdate(order_updates[ui - 1])
    /\ \E id \in DOMAIN orders :
          /\ orders[id].status = "cancelled"
          /\ orders[id].numberOfFills >= 1
          /\ orders[id].amount > 0

\* a valid CANCEL event of the height being processed, sent by the account
\* of the order it names
OwnCancel(e) ==
    /\ e.event_type = "CANCEL_ORDER"
    /\ ValidateCancelOrderParams(e.params)
    /\ e.params[2] \in DOMAIN orders
    /\ orders[e.params[2]].account = e.params[1]

\* C24: applying the update of a valid CANCEL sent by the order's own account
\* sets status 'cancelled', cancelReason 'user_cancelled', tokenReturned and
\* amountReturned from the event and lastUpdated to the event's height, whatever
\* status the order had, 'filled' included.
C24_CancelWhateverStatus ==
    [][(/\ pc = "apply" /\ ui <= Len(order_updates) /\ ui' = ui + 1
        /\ IsCancelUpdate(order_updates[ui]))
       => LET id == order_updates[ui].filter.orderId
          IN  /\ id \in DOMAIN orders
              /\ orders'[id].status = "cancelled"
              /\ orders'[id].cancelReason = "user_cancelled"
              /\ \E k \in 1..Len(events) :
                    /\ OwnCancel(events[k])
                    /\ events[k].params[2] = id
                    /\ orders'[id].tokenReturned = events[k].params[3]
                    /\ orders'[id].amountReturned = events[k].params[4].v
                    /\ orders'[id].lastUpdated = events[k].height
      ]_vars

\* C24 witness: a CANCEL has been applied to an order whose fills had made it
\* 'filled'
C24_Witness ==
    /\ pc = "apply"
    /\ ui > 1
    /\ ui = Len(order_updates) + 1
    /\ IsCancelUpdate(order_updates[ui - 1])
    /\ \E id \in DOMAIN orders :
          /\ orders[id].status = "cancelled"
          /\ orders[id].cancelReason = "user_cancelled"
          /\ orders[id].numberOfFills >= 1
          /\ orders[id].amount = 0
          /\ orders[id].originalAmount - orders[id].filledAmount <= Tolerance

\* an event with too few params for its kind, or a CANCEL that returns a
\* negative amount
ShortEvent(e) ==
    \/ e.event_type = "PLACE_ORDER" /\ Len(e.params) < 8
    \/ e.event_type = "MATCH_ORDER" /\ Len(e.params) < 10
    \/ e.event_type = "CANCEL_ORDER"
         /\ (Len(e.params) < 4 \/ e.params[4].v < 0)

\* what validation lets into the store
GatedStore ==
    /\ \A id \in DOMAIN orders :
          /\ orders[id].account # ""
          /\ orders[id].orderId # ""
          /\ orders[id].originalAmount > 0
          /\ orders[id].price > 0
    /\ \A i \in 1..Len(trades) :
          /\ trades[i].amount > 0
          /\ trades[i].price > 0
          /\ trades[i].dollarValue > 0
          /\ trades[i].fee >= 0

StoreNow == [orders |-> orders, trades |-> trades, watermark |-> watermark]

\* C30: for every event log, a run on the whole log from the empty store
\* leaves the same orders, trades and watermark as two or three consecutive
\* runs, each on the log up to some height and starting from the store the
\* run before it left, the last one on the whole log; and a run of the
\* processor in which no store call failed is, at the end of each height, where
\* the run on the log up to that height ends.
C30_ResumptionEquivalence ==
    /\ pc = "idle" =>
          \A k1 \in 0..MaxHeight : \A k2 \in k1..MaxHeight :
              Run(Run(Run(EmptyStore, Prefix(source, k1)), Prefix(source, k2)), source)
                = Run(EmptyStore, source)
    /\ (faults = 0 /\ pc = "done") => StoreNow = Run(EmptyStore, source)
    /\ (faults = 0 /\ pc = "eval" /\ ei = 1) =>
          StoreNow = Run(EmptyStore, Prefix(source, height - 1))

\* C30 witness: a run without failures has ended on a log of two heights, its
\* store that of a run on the first height followed by a run on the whole log,
\* either of which changed the store
C30_Witness ==
    /\ pc = "done"
    /\ faults = 0
    /\ watermark = 2
    /\ orders # <<>>
    /\ trades # <<>>
    /\ LET first == Run(EmptyStore, Prefix(source, 1))
       IN  /\ first # EmptyStore
           /\ first # StoreNow
           /\ Run(first, source) = StoreNow

\* the orders in which a find may return the documents of a collection: those
\* that differ from the given one only among documents of the same height
Reordered(docs) ==
    LET n == Len(docs)
    IN  {[i \in 1..n |-> docs[p[i]]] :
            p \in {q \in [1..n -> 1..n] :
                     /\ \A i \in 1..n, j \in 1..n : q[i] = q[j] => i = j
                     /\ \A i \in 1..n : docs[q[i]].height = docs[i].height}}

FetchOrders(src) ==
    [PLACE_ORDER  : Reordered(src.PLACE_ORDER),
     MATCH_ORDER  : Reordered(src.MATCH_ORDER),
     CANCEL_ORDER : Reordered(src.CANCEL_ORDER)]

\* the same trade records, each as many times
SameTrades(s, t) ==
    /\ Len(s) = Len(t)
    /\ \A i \in 1..Len(s) :
          Cardinality({k \in 1..Len(s) : s[k] = s[i]})
            = Cardinality({k \in 1..Len(t) : t[k] = s[i]})

\* C26: from the empty store, a run without failures leaves the same orders
\* and the same trades whatever the order in which the source returns the
\* events of the same kind and height (stated for the logs that place no
\* orderId twice).
C26_FetchOrderIrrelevant ==
    (pc = "idle" /\ Len(source.PLACE_ORDER) <= 1) =>
        \A src \in FetchOrders(source) :
            /\ Run(EmptyStore, src).orders = Run(EmptyStore, source).orders
            /\ SameTrades(Run(EmptyStore, src).trades, Run(EmptyStore, source).trades)

\* the batch being applied holds the updates of two MATCH events, both for
\* the same order
TwoMatchesOneOrder ==
    /\ pc = "apply"
    /\ Len(trade_inserts) = 2
    /\ trade_inserts[1].orderId = trade_inserts[2].orderId

\* C28: when a height holds two valid MATCH events for the same order of the
\* store, committing the height adds both amounts to filledAmount, 2 to
\* numberOfFills and both fees to totalFees: the application of each of the
\* two updates adds its event's amount, 1 and its event's fee to what the
\* store holds.
C28_TwoMatchesAddUp ==
    [][(/\ TwoMatchesOneOrder
        /\ ui <= Len(order_updates)
        /\ ui' = ui + 1
        /\ IsMatchUpdate(order_updates[ui]))
       => LET t  == TradeOfUpdate(ui)
              id == t.orderId
          IN  /\ orders'[id].filledAmount = orders[id].filledAmount + t.amount
              /\ orders'[id].numberOfFills = orders[id].numberOfFills + 1
              /\ orders'[id].totalFees = orders[id].totalFees + t.fee
      ]_vars

\* the place of a queued update among the kinds: PLACE upsert, MATCH, CANCEL
UpdateRank(u) == IF u.upsert THEN 0 ELSE IF IsMatchUpdate(u) THEN 1 ELSE 2

\* C29: while the batch of a height is applied, the queue holds the PLACE
\* upserts, then the MATCH updates, then the CANCEL updates, as many trades as
\* MATCH updates, and, once the loop is through, the orders of the store have
\* every queued update applied; the orders change only by the application of
\* the next queued update; the trades change only after all of them, by one
\* insert of all the queued trades; the watermark changes only after that, to
\* the height; and a trade insert that fails ends the run with the orders as
\* the updates left them, the trades and the watermark as they were.
C29_CommitOrder ==
    /\ [](pc = "apply" =>
            /\ \A i \in 1..Len(order_updates), j \in 1..Len(order_updates) :
                  i < j => UpdateRank(order_updates[i]) <= UpdateRank(order_updates[j])
            /\ Len(trade_inserts)
                 = Cardinality({i \in 1..Len(order_updates) : IsMatchUpdate(order_updates[i])})
            /\ ui > Len(order_updates) =>
                  ExecuteUpdates(orders, order_updates) = orders)
    /\ [][/\ orders' # orders =>
               /\ pc = "apply"
               /\ ui <= Len(order_updates)
               /\ orders' = UpdateOne(orders, order_updates[ui])
               /\ ui' = ui + 1
               /\ trades' = trades
               /\ watermark' = watermark
          /\ trades' # trades =>
               /\ pc = "apply"
               /\ ui > Len(order_updates)
               /\ trades' = trades \o trade_inserts
               /\ orders' = orders
               /\ watermark' = watermark
               /\ pc' = "watermark"
          /\ watermark' # watermark =>
               /\ pc = "watermark"
               /\ watermark' = height
               /\ orders' = orders
               /\ trades' = trades
          /\ (/\ pc = "apply" /\ ui > Len(order_updates)
              /\ trade_inserts # <<>> /\ trades' = trades) =>
               /\ pc' = "failed"
               /\ orders' = orders
               /\ watermark' = watermark
         ]_vars

\* C29 witness: the trade insert of height 2 has failed: the MATCH update of
\* the height is in the order, no trade is in the store and the watermark is
\* behind the height
C29_Witness ==
    /\ pc = "failed"
    /\ trade_inserts # <<>>
    /\ order_updates = <<>>
    /\ trades = <<>>
    /\ height = 2
    /\ watermark < 2
    /\ \E id \in DOMAIN orders :
          /\ orders[id].numberOfFills = 1
          /\ orders[id].lastFillHeight = 2

\* the events of the source, each with its kind
SourceEvents ==
    UNION {{[event_type |-> kind] @@ source[kind][i] : i \in 1..Len(source[kind])} :
              kind \in DOMAIN source}

\* C27: in every reachable state, whatever store calls failed, each event of
\* the source whose height is at most the stored watermark has been taken up
\* by the loop of some run (and applied, rejected or dropped there).
C27_WatermarkCovers ==
    \A e \in SourceEvents :
        e.height <= watermark => <<e.event_type, e._id>> \in evaluated

\* C31: a run evaluates no event at or below the watermark that the store
\* holds when the run starts, whatever store calls fail: the events a starting
\* run organizes for its loop, the only ones it will evaluate, are all above
\* the stored watermark.
C31_NothingBelowWatermark ==
    [][(pc \in {"idle", "done", "failed"} /\ pc' # pc) =>
          \A h \in DOMAIN events_by_height' :
              \A i \in 1..Len(events_by_height'[h]) :
                  events_by_height'[h][i].height > watermark
      ]_vars

\* the sum of amount over the trade records of an order
RECURSIVE SumAmounts(_, _)
SumAmounts(ts, id) ==
    IF ts = <<>> THEN 0
    ELSE (IF Head(ts).orderId = id THEN Head(ts).amount ELSE 0) + SumAmounts(Tail(ts), id)

\* no height is half way: the run is between two heights, or there is no run
BetweenHeights == pc \in {"idle", "done"} \/ (pc = "eval" /\ ei = 1)

\* C32: as long as no store call has failed, after each height is committed
\* the filledAmount of every order is the sum of amount over the trade records
\* with its orderId, and its numberOfFills is the number of those records.
C32_FillsMatchTrades ==
    (faults = 0 /\ BetweenHeights) =>
        \A id \in DOMAIN orders :
            /\ orders[id].filledAmount = SumAmounts(trades, id)
            /\ orders[id].numberOfFills
                 = Cardinality({k \in 1..Len(trades) : trades[k].orderId = id})

\* C33: in every reachable state the orderId of every trade record, stored or
\* queued, is the orderId of an order of the orders collection.
C33_TradesHaveOrders ==
    /\ \A k \in 1..Len(trades) :
          /\ trades[k].orderId \in DOMAIN orders
          /\ orders[trades[k].orderId].orderId = trades[k].orderId
    /\ \A k \in 1..Len(trade_inserts) : trade_inserts[k].orderId \in DOMAIN orders

\* C33 witness: a MATCH of height 1 found no order and left no trade, and the
\* store holds the trade of a MATCH of height 2 beside its order
C33_Witness ==
    /\ pc = "done"
    /\ \E i \in 1..Len(source.MATCH_ORDER) :
          /\ source.MATCH_ORDER[i].height = 1
          /\ ValidateMatchOrderParams(source.MATCH_ORDER[i].params)
          /\ <<"MATCH_ORDER", source.MATCH_ORDER[i]._id>> \in evaluated
    /\ Len(trades) = 1
    /\ trades[1].height = 2
    /\ trades[1].orderId \in DOMAIN orders

\* C34: no step lowers the stored watermark, in any run of any sequence of
\* runs, whatever store calls fail.
C34_WatermarkNeverDecreases == [][watermark' >= watermark]_vars

\* max(events_by_height.keys())
GreatestHeight(ebh) == CHOOSE h \in DOMAIN ebh : \A g \in DOMAIN ebh : g <= h

\* C35: with no store failure a run that has fetched its events comes to its
\* end; at the end of a run the stored watermark is the greatest height among
\* the events it fetched and both queues are empty; and a run that fetched no
\* event ends at once with the watermark as it was.
C35_RunTerminates ==
    /\ Running ~> (pc = "done")
    /\ [](pc = "done" =>
            /\ order_updates = <<>>
            /\ trade_inserts = <<>>
            /\ DOMAIN events_by_height # {} =>
                  watermark = GreatestHeight(events_by_height))
    /\ [][(pc \in {"idle", "done"} /\ DOMAIN events_by_height' = {}) =>
             /\ pc' = "done"
             /\ watermark' = watermark
         ]_vars

\* C35 witness: a run over events of two heights, with mutations and a trade,
\* has ended
C35_Witness ==
    /\ pc = "done"
    /\ faults = 0
    /\ DOMAIN events_by_height = {1, 2}
    /\ watermark = 2
    /\ orders # <<>>
    /\ trades # <<>>
    /\ order_updates = <<>>
    /\ trade_inserts = <<>>

\* the first instance is gone and has left a lock file behind, which it does
\* only when killed; the later instance is about to be started
KilledHoldingLock ==
    /\ proc["p1"] = "exited"
    /\ proc["p2"] = "waiting"
    /\ (lock_file # NoFile \/ dex_lock_file)

\* C36: when an instance was killed while it held the run_scripts lock, the
\* dex lock file or both, the instance started after it, with no other one
\* running, comes to execute DexOrderProcessor.run.
C36_NoLockOut == KilledHoldingLock ~> (proc["p2"] = "run")

=============================================================================
